---- MODULE Spec2Model ----
(***************************************************************************)
(* Model of app.py: the POST /api/ideas pipeline (get_ideas), the location *)
(* filter (is_valid_location) and the category prompt catalog              *)
(* (CATEGORY_PROMPTS).                                                     *)
(*                                                                         *)
(* Python strings whose characters matter (locations, categories) are      *)
(* sequences of one-character strings, so that lower(), strip() and the    *)
(* substring test `in` are computed character by character.                *)
(***************************************************************************)
EXTENDS Integers, Sequences, FiniteSets, TLC

VARIABLES
    openai_api_key,     \* module global, set once at import (line 20)
    client_configured,  \* module global, set once at import (lines 21-32)
    CATEGORY_PROMPTS,   \* module global dict (lines 63-241)
    pc,                 \* per request: "idle", "calling" (blocked in the upstream call), "done"
    data,               \* per request: what request.get_json() yields
    system_prompt,      \* per request local (lines 293-328)
    user_prompt,        \* per request local (lines 331-341)
    calls,              \* per request: number of openai.ChatCompletion.create invocations
    reply,              \* per request: outcome of its upstream call
    response,           \* per request: the (body, status) pair returned
    arg_location,       \* argument of a direct call of is_valid_location
    ret_is_valid,       \* its result
    arg_category,       \* a category string looked up in the catalog
    ret_prompt          \* the instruction block selected for it

vars == << openai_api_key, client_configured, CATEGORY_PROMPTS, pc, data,
           system_prompt, user_prompt, calls, reply, response,
           arg_location, ret_is_valid, arg_category, ret_prompt >>

pipeline_vars == << openai_api_key, client_configured, CATEGORY_PROMPTS, pc, data,
                    system_prompt, user_prompt, calls, reply, response >>

----------------------------------------------------------------------------
(* Bounds *)

\* number of fragments concatenated to form an argument of is_valid_location
MaxParts == 3
\* number of requests in flight at once
NumReq == 2

----------------------------------------------------------------------------
(* str.lower(), str.strip(), `sub in s` *)

UpperChars == <<"A","B","C","D","E","F","G","H","I","J","K","L","M","N","O","P","Q","R","S","T","U","V","W","X","Y","Z">>
LowerChars == <<"a","b","c","d","e","f","g","h","i","j","k","l","m","n","o","p","q","r","s","t","u","v","w","x","y","z">>
Whitespace == {" ", "\t", "\n"}

lower_char(c) ==
    IF \E i \in DOMAIN UpperChars : UpperChars[i] = c
    THEN LowerChars[CHOOSE i \in DOMAIN UpperChars : UpperChars[i] = c]
    ELSE c

upper_char(c) ==
    IF \E i \in DOMAIN LowerChars : LowerChars[i] = c
    THEN UpperChars[CHOOSE i \in DOMAIN LowerChars : LowerChars[i] = c]
    ELSE c

lower(s) == [i \in 1..Len(s) |-> lower_char(s[i])]

SetMin(S) == CHOOSE x \in S : \A y \in S : x <= y
SetMax(S) == CHOOSE x \in S : \A y \in S : x >= y

strip(s) ==
    LET keep == {i \in 1..Len(s) : s[i] \notin Whitespace}
    IN  IF keep = {} THEN << >> ELSE SubSeq(s, SetMin(keep), SetMax(keep))

\* Python's `sub in s` for strings
contains(sub, s) ==
    \E i \in 1..(Len(s) - Len(sub) + 1) : SubSeq(s, i, i + Len(sub) - 1) = sub

----------------------------------------------------------------------------
(* is_valid_location, lines 35-60 *)

invalid_locations ==
    { <<"m","a","r","s">>,
      <<"m","o","o","n">>,
      <<"j","u","p","i","t","e","r">>,
      <<"s","a","t","u","r","n">>,
      <<"v","e","n","u","s">>,
      <<"m","e","r","c","u","r","y">>,
      <<"n","e","p","t","u","n","e">>,
      <<"u","r","a","n","u","s">>,
      <<"p","l","u","t","o">>,
      <<"h","o","g","w","a","r","t","s">>,
      <<"m","i","d","d","l","e"," ","e","a","r","t","h">>,
      <<"n","a","r","n","i","a">>,
      <<"w","e","s","t","e","r","o","s">>,
      <<"n","e","v","e","r","l","a","n","d">>,
      <<"a","t","l","a","n","t","i","s">>,
      <<"e","l"," ","d","o","r","a","d","o">>,
      <<"s","h","a","n","g","r","i","-","l","a">>,
      <<"u","t","o","p","i","a">>,
      <<"f","a","n","t","a","s","y"," ","l","a","n","d">>,
      <<"d","r","e","a","m"," ","w","o","r","l","d">>,
      <<"i","m","a","g","i","n","a","r","y"," ","p","l","a","c","e">>,
      <<"f","a","k","e"," ","c","i","t","y">>,
      <<"t","e","s","t"," ","l","o","c","a","t","i","o","n">>,
      <<"e","x","a","m","p","l","e"," ","c","i","t","y">>,
      <<"s","a","m","p","l","e"," ","t","o","w","n">>,
      <<"d","e","m","o"," ","p","l","a","c","e">>,
      <<"m","o","c","k"," ","l","o","c","a","t","i","o","n">> }

placeholder_words ==
    { <<"t","e","s","t">>,
      <<"e","x","a","m","p","l","e">>,
      <<"s","a","m","p","l","e">>,
      <<"d","e","m","o">>,
      <<"f","a","k","e">>,
      <<"m","o","c","k">> }

\* a slip that would compare the denylist against the location as typed
is_valid_location_case_sensitive(location) ==
    LET location_lower == strip(location)
    IN  IF \E invalid \in invalid_locations : contains(invalid, location_lower)
        THEN FALSE
        ELSE IF Len(strip(location)) < 3
        THEN FALSE
        ELSE IF \E word \in placeholder_words : contains(word, location_lower)
        THEN FALSE
        ELSE TRUE

is_valid_location(location) ==
    LET location_lower == strip(lower(location))
    IN  IF \E invalid \in invalid_locations : contains(invalid, location_lower)
        THEN FALSE
        ELSE IF Len(strip(location)) < 3
        THEN FALSE
        ELSE IF \E word \in placeholder_words : contains(word, location_lower)
        THEN FALSE
        ELSE TRUE

----------------------------------------------------------------------------
(* CATEGORY_PROMPTS, lines 63-241, and its lookup, line 293.               *)
(* An instruction block is a sequence of text blocks; the catalog entries  *)
(* have one block each, and line 296 appends the schema block.             *)

KEY_DATE    == <<"d","a","t","e">>
KEY_TRAVEL  == <<"t","r","a","v","e","l">>
KEY_LOCAL   == <<"l","o","c","a","l">>
KEY_SPECIAL == <<"s","p","e","c","i","a","l">>
KEY_GROUP   == <<"g","r","o","u","p">>

CategoryKeys == {KEY_DATE, KEY_TRAVEL, KEY_LOCAL, KEY_SPECIAL, KEY_GROUP}

CATEGORY_PROMPTS_initial ==
    [k \in CategoryKeys |->
        CASE k = KEY_DATE    -> <<"You are a specialized Date Ideas Expert ...">>
          [] k = KEY_TRAVEL  -> <<"You are a specialized Travel Activities Expert ...">>
          [] k = KEY_LOCAL   -> <<"You are a specialized Local Activities Expert ...">>
          [] k = KEY_SPECIAL -> <<"You are a specialized Special Events Expert ...">>
          [] k = KEY_GROUP   -> <<"You are a specialized Group Activities Expert ...">>]

\* a slip that would look the category up as typed
get_category_prompt_no_lower(prompts, category) ==
    IF category \in DOMAIN prompts
    THEN prompts[category]
    ELSE prompts[KEY_LOCAL]

\* CATEGORY_PROMPTS.get(category.lower(), CATEGORY_PROMPTS["local"])
get_category_prompt(prompts, category) ==
    IF lower(category) \in DOMAIN prompts
    THEN prompts[lower(category)]
    ELSE prompts[KEY_LOCAL]

----------------------------------------------------------------------------
(* Python values found in the request body and in the environment *)

PyNone   == [t |-> "NoneType", s |-> << >>, n |-> 0]
PyStr(x) == [t |-> "str", s |-> x, n |-> 0]
PyInt(k) == [t |-> "int", s |-> << >>, n |-> k]
\* a key that the JSON object does not have
Absent   == [t |-> "absent", s |-> << >>, n |-> 0]

\* Python truth value: `not v` is ~truthy(v)
truthy(v) ==
    CASE v.t = "str"      -> v.s # << >>
      [] v.t = "int"      -> v.n # 0
      [] v.t = "NoneType" -> FALSE

(* What request.get_json() (line 273) yields:                              *)
(*   kind "BadRequest": the body is not parseable JSON, get_json raises;   *)
(*   kind "None":  JSON null (or no JSON body);                            *)
(*   kind "list":  a JSON array of len elements;                           *)
(*   kind "dict":  a JSON object with the fields that are not Absent.      *)
Fields == {"location", "category", "budgetHint", "timeHint", "indoorOutdoor"}

Data(kind, len, location, category, budgetHint, timeHint, indoorOutdoor) ==
    [kind |-> kind, len |-> len, location |-> location, category |-> category,
     budgetHint |-> budgetHint, timeHint |-> timeHint, indoorOutdoor |-> indoorOutdoor]

NoData == Data("None", 0, Absent, Absent, Absent, Absent, Absent)

\* `not data` is ~data_truthy(data)
data_truthy(d) ==
    CASE d.kind = "None" -> FALSE
      [] d.kind = "list" -> d.len > 0
      [] d.kind = "dict" -> \E f \in Fields : d[f].t # "absent"

\* data.get(field, default)
dict_get(d, field, default) ==
    IF d[field].t = "absent" THEN default ELSE d[field]

----------------------------------------------------------------------------
(* Responses and exceptions *)

\* (jsonify(...), status): an error response has error # "", a success
\* response carries the parsed value in body.
JsonObject(ideas, len, other) == [ideas |-> ideas, len |-> len, other |-> other]
NoJson == JsonObject("no body", 0, "")

Response(status, error, arg, body) ==
    [status |-> status, error |-> error, arg |-> arg, body |-> body]

NoResponse == Response(0, "", << >>, NoJson)

Error(status, error, arg) == Response(status, error, arg, NoJson)

Exception(cls, text) == [cls |-> cls, text |-> text]

\* a slip that would put the generic handler first
handle_exception_generic_first(e) ==
    Error(500, "Internal server error: {str(e)}", <<e.text>>)

\* the except clauses of get_ideas, lines 364-369
handle_exception(e) ==
    IF e.cls = "JSONDecodeError"
    THEN Error(500, "Invalid JSON response from AI", << >>)
    ELSE Error(500, "Internal server error: {str(e)}", <<e.text>>)

----------------------------------------------------------------------------
(* Startup, lines 19-32 *)

\* client_configured as computed at import; configure_raises is the except
\* branch of lines 30-32
startup_client_configured(key, configure_raises) ==
    IF ~truthy(key) THEN FALSE
    ELSE IF configure_raises THEN FALSE
    ELSE TRUE

----------------------------------------------------------------------------
(* get_ideas up to the upstream call, lines 261-343 *)

\* a slip that would omit the readiness checks
check_readiness_omitted(key, configured) == NoResponse

\* lines 263-270
check_readiness(key, configured) ==
    IF ~truthy(key)
    THEN Error(500, "OpenAI API key not configured", << >>)
    ELSE IF ~configured
    THEN Error(500, "OpenAI client not configured", << >>)
    ELSE NoResponse

\* lines 273-276
check_data(d) ==
    IF d.kind = "BadRequest"
    THEN handle_exception(Exception("BadRequest", "400 Bad Request: Failed to decode JSON object"))
    ELSE IF ~data_truthy(d)
    THEN Error(400, "No data provided", << >>)
    ELSE IF d.kind # "dict"
    THEN handle_exception(Exception("AttributeError", "'list' object has no attribute 'get'"))
    ELSE NoResponse

\* lines 279-286
check_required(location, category) ==
    IF ~truthy(location) \/ ~truthy(category)
    THEN Error(400, "Location and category are required", << >>)
    ELSE NoResponse

\* a slip that would echo the normalised location
check_location_echo_normalised(location) ==
    IF location.t # "str"
    THEN handle_exception(Exception("AttributeError", "'int' object has no attribute 'lower'"))
    ELSE IF ~is_valid_location(location.s)
    THEN Error(400, "'{location}' is not a valid location. Please enter a real city, town, or area.",
               strip(lower(location.s)))
    ELSE NoResponse

\* lines 289-290; location.lower() at line 45 raises on a non-string
check_location(location) ==
    IF location.t # "str"
    THEN handle_exception(Exception("AttributeError", "'int' object has no attribute 'lower'"))
    ELSE IF ~is_valid_location(location.s)
    THEN Error(400, "'{location}' is not a valid location. Please enter a real city, town, or area.",
               location.s)
    ELSE NoResponse

SCHEMA_BLOCK == "You generate activity ideas as STRICT JSON only. ..."

\* lines 293-328; category.lower() raises on a non-string
compose_system_prompt(prompts, category) ==
    get_category_prompt(prompts, category.s) \o <<SCHEMA_BLOCK>>

\* one preference line of the user prompt, lines 335-337
preference_line(label, hint) ==
    IF truthy(hint) THEN [label |-> label, value |-> hint.s]
                    ELSE [label |-> "-", value |-> << >>]

UserPrompt(location, category, budget, time, setting) ==
    [location |-> location, category |-> category,
     budget |-> budget, time |-> time, setting |-> setting]

NoLine == [label |-> "", value |-> << >>]
NoUserPrompt == UserPrompt(<< >>, << >>, NoLine, NoLine, NoLine)

\* lines 331-341
compose_user_prompt(location, category, budget_hint, time_hint, indoor_outdoor) ==
    UserPrompt(location.s, category.s,
               preference_line("Budget: ", budget_hint),
               preference_line("Time: ", time_hint),
               preference_line("Setting: ", indoor_outdoor))

Outcome(resp, proceed, sys, user) ==
    [response |-> resp, proceed |-> proceed, system_prompt |-> sys, user_prompt |-> user]

Respond(resp) == Outcome(resp, FALSE, << >>, NoUserPrompt)

\* a slip that would validate the location before the required fields
prepare_call_location_first(prompts, d) ==
    LET location       == dict_get(d, "location", PyStr(<< >>))
        category       == dict_get(d, "category", PyStr(<< >>))
        budget_hint    == dict_get(d, "budgetHint", PyStr(<< >>))
        time_hint      == dict_get(d, "timeHint", PyStr(<< >>))
        indoor_outdoor == dict_get(d, "indoorOutdoor", PyStr(<< >>))
        required       == check_required(location, category)
        valid          == check_location(location)
    IN  IF valid # NoResponse
        THEN Respond(valid)
        ELSE IF required # NoResponse
        THEN Respond(required)
        ELSE IF category.t # "str"
        THEN Respond(handle_exception(
                 Exception("AttributeError", "'int' object has no attribute 'lower'")))
        ELSE Outcome(NoResponse, TRUE,
                     compose_system_prompt(prompts, category),
                     compose_user_prompt(location, category, budget_hint,
                                         time_hint, indoor_outdoor))

\* lines 278-343, once data is a non-empty dict
prepare_call(prompts, d) ==
    LET location       == dict_get(d, "location", PyStr(<< >>))
        category       == dict_get(d, "category", PyStr(<< >>))
        budget_hint    == dict_get(d, "budgetHint", PyStr(<< >>))
        time_hint      == dict_get(d, "timeHint", PyStr(<< >>))
        indoor_outdoor == dict_get(d, "indoorOutdoor", PyStr(<< >>))
        required       == check_required(location, category)
        valid          == check_location(location)
    IN  IF required # NoResponse
        THEN Respond(required)
        ELSE IF valid # NoResponse
        THEN Respond(valid)
        ELSE IF category.t # "str"
        THEN Respond(handle_exception(
                 Exception("AttributeError", "'int' object has no attribute 'lower'")))
        ELSE Outcome(NoResponse, TRUE,
                     compose_system_prompt(prompts, category),
                     compose_user_prompt(location, category, budget_hint,
                                         time_hint, indoor_outdoor))

\* lines 261-343
get_ideas_before_call(key, configured, prompts, d) ==
    LET ready  == check_readiness(key, configured)
        parsed == check_data(d)
    IN  IF ready # NoResponse
        THEN Respond(ready)
        ELSE IF parsed # NoResponse
        THEN Respond(parsed)
        ELSE prepare_call(prompts, d)

----------------------------------------------------------------------------
(* The upstream reply and its parsing, lines 346-362 *)

(* The texts response.choices[0].message.content may hold.  The request    *)
(* asks for response_format json_object, so a reply that parses is a JSON  *)
(* object; a reply cut short or a plain-text answer does not parse.        *)
CONTENT_EIGHT_IDEAS == "{\"ideas\": [i1, i2, i3, i4, i5, i6, i7, i8]}"
CONTENT_ONE_IDEA    == "{\"ideas\": [i1]}"
CONTENT_NO_IDEAS    == "{\"error\": \"not a real location\"}"
CONTENT_NULL_IDEAS  == "{\"ideas\": null}"
CONTENT_TRUNCATED   == "{\"ideas\": [i1, i2"
CONTENT_PLAIN_TEXT  == "Sorry, I cannot help with that."

Contents == {CONTENT_EIGHT_IDEAS, CONTENT_ONE_IDEA, CONTENT_NO_IDEAS,
             CONTENT_NULL_IDEAS, CONTENT_TRUNCATED, CONTENT_PLAIN_TEXT}

\* json.loads(content), line 358: the parsed object, or JSONDecodeError
json_loads(content) ==
    CASE content = CONTENT_EIGHT_IDEAS -> [ok |-> TRUE,  value |-> JsonObject("list", 8, "")]
      [] content = CONTENT_ONE_IDEA    -> [ok |-> TRUE,  value |-> JsonObject("list", 1, "")]
      [] content = CONTENT_NO_IDEAS    -> [ok |-> TRUE,  value |-> JsonObject("absent", 0, "error: not a real location")]
      [] content = CONTENT_NULL_IDEAS  -> [ok |-> TRUE,  value |-> JsonObject("NoneType", 0, "")]
      [] content = CONTENT_TRUNCATED   -> [ok |-> FALSE, value |-> NoJson]
      [] content = CONTENT_PLAIN_TEXT  -> [ok |-> FALSE, value |-> NoJson]

\* lines 357-362 with the except clauses
get_ideas_after_call(content) ==
    LET parsed == json_loads(content)
    IN  IF ~parsed.ok
        THEN handle_exception(Exception("JSONDecodeError", "Expecting value"))
        \* line 360: len(ideas_data.get('ideas', []))
        ELSE IF parsed.value.ideas \notin {"absent", "list"}
        THEN handle_exception(Exception("TypeError", "object of type 'NoneType' has no len()"))
        ELSE Response(200, "", << >>, parsed.value)

\* outcome of the upstream call of one request
Reply(kind, content) == [kind |-> kind, content |-> content]
NoReply == Reply("none", "")

----------------------------------------------------------------------------
(* Inputs *)

PARIS    == <<"P","a","r","i","s">>
HOGWARTS == <<" ","H","o","g","W","a","r","t","s">>
CHEAP    == <<"c","h","e","a","p">>
EVENING  == <<"e","v","e","n","i","n","g">>

LocationValues == {Absent, PyStr(<< >>), PyStr(PARIS), PyStr(HOGWARTS), PyInt(5)}
CategoryValues == {Absent, PyStr(<< >>), PyStr(<<"D","A","T","E">>), PyStr(KEY_GROUP),
                   PyStr(<<"f","o","o">>), PyInt(5)}

Datas ==
    { Data("BadRequest", 0, Absent, Absent, Absent, Absent, Absent),
      NoData,
      Data("list", 0, Absent, Absent, Absent, Absent, Absent),
      Data("list", 1, Absent, Absent, Absent, Absent, Absent) }
    \cup { Data("dict", 0, l, c, Absent, Absent, Absent) :
               l \in LocationValues, c \in CategoryValues }
    \cup { Data("dict", 0, PyStr(PARIS), PyStr(KEY_GROUP), PyStr(CHEAP), PyStr(<< >>), Absent),
           Data("dict", 0, Absent, Absent, Absent, PyStr(EVENING), Absent) }

Requests == 1..NumReq

KeyValues == {PyNone, PyStr(<< >>), PyStr(<<"s","k","-","1">>)}

----------------------------------------------------------------------------
(* The request pipeline *)

\* a slip that would append the schema block to the catalog entry in place,
\* as `+=` does on a mutable sequence
catalog_after_compose_in_place(prompts, category) ==
    LET key == IF lower(category.s) \in DOMAIN prompts THEN lower(category.s) ELSE KEY_LOCAL
    IN  [prompts EXCEPT ![key] = @ \o <<SCHEMA_BLOCK>>]

\* line 296 rebinds the local name system_prompt to a new string; the
\* catalog entry it was read from is left as it was.
catalog_after_compose(prompts, category) == prompts

Init ==
    /\ openai_api_key \in KeyValues
    /\ \E configure_raises \in BOOLEAN :
           client_configured = startup_client_configured(openai_api_key, configure_raises)
    /\ CATEGORY_PROMPTS = CATEGORY_PROMPTS_initial
    /\ pc = [r \in Requests |-> "idle"]
    /\ data = [r \in Requests |-> NoData]
    /\ system_prompt = [r \in Requests |-> << >>]
    /\ user_prompt = [r \in Requests |-> NoUserPrompt]
    /\ calls = [r \in Requests |-> 0]
    /\ reply = [r \in Requests |-> NoReply]
    /\ response = [r \in Requests |-> NoResponse]
    /\ arg_location = << >>
    /\ ret_is_valid = [done |-> FALSE, value |-> FALSE]
    /\ arg_category = << >>
    /\ ret_prompt = << >>

\* POST /api/ideas arrives with body d and runs up to the upstream call
Request(r, d) ==
    /\ pc[r] = "idle"
    /\ LET out == get_ideas_before_call(openai_api_key, client_configured, CATEGORY_PROMPTS, d)
       IN  /\ data' = [data EXCEPT ![r] = d]
           /\ IF out.proceed
              THEN /\ pc' = [pc EXCEPT ![r] = "calling"]
                   /\ system_prompt' = [system_prompt EXCEPT ![r] = out.system_prompt]
                   /\ user_prompt' = [user_prompt EXCEPT ![r] = out.user_prompt]
                   /\ calls' = [calls EXCEPT ![r] = @ + 1]
                   /\ CATEGORY_PROMPTS' = catalog_after_compose(CATEGORY_PROMPTS, d.category)
                   /\ UNCHANGED response
              ELSE /\ pc' = [pc EXCEPT ![r] = "done"]
                   /\ response' = [response EXCEPT ![r] = out.response]
                   /\ UNCHANGED << system_prompt, user_prompt, calls, CATEGORY_PROMPTS >>
    /\ UNCHANGED << openai_api_key, client_configured, reply,
                    arg_location, ret_is_valid, arg_category, ret_prompt >>

\* openai.ChatCompletion.create returns; lines 357-362
UpstreamReturns(r, content) ==
    /\ pc[r] = "calling"
    /\ reply' = [reply EXCEPT ![r] = Reply("content", content)]
    /\ response' = [response EXCEPT ![r] = get_ideas_after_call(content)]
    /\ pc' = [pc EXCEPT ![r] = "done"]
    /\ UNCHANGED << openai_api_key, client_configured, CATEGORY_PROMPTS, data,
                    system_prompt, user_prompt, calls,
                    arg_location, ret_is_valid, arg_category, ret_prompt >>

\* openai.ChatCompletion.create raises; lines 367-369
UpstreamRaises(r) ==
    /\ pc[r] = "calling"
    /\ reply' = [reply EXCEPT ![r] = Reply("raise", "")]
    /\ response' = [response EXCEPT ![r] =
                       handle_exception(Exception("OpenAIError", "Rate limit reached"))]
    /\ pc' = [pc EXCEPT ![r] = "done"]
    /\ UNCHANGED << openai_api_key, client_configured, CATEGORY_PROMPTS, data,
                    system_prompt, user_prompt, calls,
                    arg_location, ret_is_valid, arg_category, ret_prompt >>

Next ==
    \/ \E r \in Requests, d \in Datas : Request(r, d)
    \/ \E r \in Requests, content \in Contents : UpstreamReturns(r, content)
    \/ \E r \in Requests : UpstreamRaises(r)

Spec == Init /\ [][Next]_vars

----------------------------------------------------------------------------
(* Direct calls of is_valid_location on composed location strings *)

LocationFragments ==
    { <<" ">>, <<"a">>, <<"P","a","r","i","s">>, <<"M","A","R","S">>,
      <<"h","o","g">>, <<"W","a","r","t","s">>, <<"T","e","s","t">>,
      <<"M","i","d","d","l","e">>, <<"e","a","r","t","h">>, <<"D","e","m","o","p","o","l","i","s">> }

RECURSIVE LocationsOf(_)
LocationsOf(n) ==
    IF n = 0 THEN { << >> }
    ELSE LocationsOf(n - 1) \cup { l \o f : l \in LocationsOf(n - 1), f \in LocationFragments }

Locations == LocationsOf(MaxParts)

IdlePipeline ==
    /\ openai_api_key = PyNone
    /\ client_configured = startup_client_configured(PyNone, FALSE)
    /\ CATEGORY_PROMPTS = CATEGORY_PROMPTS_initial
    /\ pc = [r \in Requests |-> "idle"]
    /\ data = [r \in Requests |-> NoData]
    /\ system_prompt = [r \in Requests |-> << >>]
    /\ user_prompt = [r \in Requests |-> NoUserPrompt]
    /\ calls = [r \in Requests |-> 0]
    /\ reply = [r \in Requests |-> NoReply]
    /\ response = [r \in Requests |-> NoResponse]

InitLoc ==
    /\ IdlePipeline
    /\ arg_location \in Locations
    /\ ret_is_valid = [done |-> FALSE, value |-> FALSE]
    /\ arg_category = << >>
    /\ ret_prompt = << >>

CallIsValidLocation ==
    /\ ~ret_is_valid.done
    /\ ret_is_valid' = [done |-> TRUE, value |-> is_valid_location(arg_location)]
    /\ UNCHANGED << pipeline_vars, arg_location, arg_category, ret_prompt >>

NextLoc == CallIsValidLocation

SpecLoc == InitLoc /\ [][NextLoc]_vars

----------------------------------------------------------------------------
(* Direct lookups in the catalog *)

\* every upper/lower-case spelling of a key
CaseSpellings(k) ==
    { [i \in 1..Len(k) |-> IF i \in U THEN upper_char(k[i]) ELSE k[i]] : U \in SUBSET (1..Len(k)) }

OtherCategories ==
    { <<"f","o","o">>, <<"d","a","t","e","s">>, <<"d","a","t">>, <<" ","d","a","t","e">>,
      <<"L","o","c","a","l","e">>, <<"G","R","O","U","P","S">>, <<"t","r","i","p">> }

Categories == UNION { CaseSpellings(k) : k \in CategoryKeys } \cup OtherCategories

InitCat ==
    /\ IdlePipeline
    /\ arg_location = << >>
    /\ ret_is_valid = [done |-> FALSE, value |-> FALSE]
    /\ arg_category \in Categories
    /\ ret_prompt = << >>

ResolveCategory ==
    /\ ret_prompt = << >>
    /\ ret_prompt' = get_category_prompt(CATEGORY_PROMPTS, arg_category)
    /\ UNCHANGED << pipeline_vars, arg_location, ret_is_valid, arg_category >>

NextCat == ResolveCategory

SpecCat == InitCat /\ [][NextCat]_vars

----------------------------------------------------------------------------
(* Properties *)

Ready == truthy(openai_api_key) /\ client_configured

ConfigurationErrors == {"OpenAI API key not configured", "OpenAI client not configured"}
RequiredError == "Location and category are required"
LocationError == "'{location}' is not a valid location. Please enter a real city, town, or area."
ParseError    == "Invalid JSON response from AI"
InternalError == "Internal server error: {str(e)}"

\* the field as the handler reads it: '' when the key is missing
FieldOf(d, f) == IF d[f].t = "absent" THEN PyStr(<< >>) ELSE d[f]

\* C1: with the credential absent or the client not configured, every
\* request, whatever its body, ends with a 500 configuration error and no
\* upstream call is attempted for it.
C1_UnreadyShortCircuits ==
    ~Ready =>
        \A r \in Requests :
            /\ pc[r] # "calling"
            /\ calls[r] = 0
            /\ pc[r] = "done" =>
                   /\ response[r].status = 500
                   /\ response[r].error \in ConfigurationErrors

C1_Witness ==
    /\ ~Ready
    /\ \E r \in Requests :
           /\ pc[r] = "done"
           /\ data[r].kind = "dict"
           /\ data[r].location = PyStr(PARIS)
           /\ data[r].category = PyStr(KEY_GROUP)

\* the request carries no location or no category: the parsed body is not
\* an object with both fields non-empty
MissingField(d) ==
    \/ d.kind \in {"None", "list"}
    \/ /\ d.kind = "dict"
       /\ \/ FieldOf(d, "location") = PyStr(<< >>)
          \/ FieldOf(d, "category") = PyStr(<< >>)

\* C2: with the client ready, every request in which location or category
\* is empty or absent (a request without body data included) gets the
\* InvalidRequest error, HTTP 400, and no upstream call.
C2_MissingFieldsRejected ==
    Ready =>
        \A r \in Requests :
            (pc[r] = "done" /\ MissingField(data[r])) =>
                /\ response[r].status = 400
                /\ response[r].error \in {"No data provided", RequiredError}
                /\ calls[r] = 0

\* C3: with the client ready and both fields non-empty, a location that
\* is_valid_location rejects ends with HTTP 400 and the invalid-location
\* message carrying the location exactly as submitted; no prompt is
\* composed and no upstream call is made.
C3_InvalidLocationEchoed ==
    Ready =>
        \A r \in Requests :
            ( /\ pc[r] # "idle"
              /\ data[r].kind = "dict"
              /\ truthy(FieldOf(data[r], "location"))
              /\ truthy(FieldOf(data[r], "category"))
              /\ data[r].location.t = "str"
              /\ ~is_valid_location(data[r].location.s) ) =>
                /\ pc[r] = "done"
                /\ response[r].status = 400
                /\ response[r].error = LocationError
                /\ response[r].arg = data[r].location.s
                /\ system_prompt[r] = << >>
                /\ user_prompt[r] = NoUserPrompt
                /\ calls[r] = 0

C3_Witness ==
    /\ Ready
    /\ \E r \in Requests :
           /\ pc[r] = "done"
           /\ data[r].location = PyStr(HOGWARTS)
           /\ truthy(FieldOf(data[r], "category"))
           /\ response[r].error = LocationError

\* word occurs in s when letter case is ignored
ContainsIgnoringCase(word, s) ==
    \E i \in 1..(Len(s) - Len(word) + 1) :
        \A j \in 1..Len(word) : s[i + j - 1] \in {word[j], upper_char(word[j])}

Denylisted(s) ==
    \E word \in invalid_locations \cup placeholder_words : ContainsIgnoringCase(word, s)

\* C4 as stated: false for every location containing a denylisted name or
\* placeholder token whatever the case, true for every location of at least
\* 3 characters containing none.
C4_Original ==
    ret_is_valid.done =>
        /\ Denylisted(arg_location) => ~ret_is_valid.value
        /\ (Len(arg_location) >= 3 /\ ~Denylisted(arg_location)) => ret_is_valid.value

\* C4 amended: false for every location containing a denylisted name or
\* placeholder token whatever the case, true for every location that has at
\* least 3 characters once leading and trailing whitespace is removed and
\* contains none.
C4_TrimmedLength ==
    ret_is_valid.done =>
        /\ Denylisted(arg_location) => ~ret_is_valid.value
        /\ (Len(strip(arg_location)) >= 3 /\ ~Denylisted(arg_location)) => ret_is_valid.value

C4_Witness ==
    /\ ret_is_valid.done
    /\ Denylisted(arg_location)
    /\ \A word \in invalid_locations \cup placeholder_words : ~contains(word, arg_location)
    /\ ~ret_is_valid.value

\* s spells key k in some mix of upper and lower case
Spells(s, k) ==
    /\ Len(s) = Len(k)
    /\ \A i \in 1..Len(k) : s[i] \in {k[i], upper_char(k[i])}

\* C5: every upper/lower-case spelling of a key selects the block of the
\* lower-case key, every other category string selects the "local" block,
\* and a block is always selected.
C5_CaseInsensitiveTotal ==
    ret_prompt # << >> =>
        /\ \A k \in CategoryKeys :
               Spells(arg_category, k) => ret_prompt = CATEGORY_PROMPTS_initial[k]
        /\ (\A k \in CategoryKeys : ~Spells(arg_category, k)) =>
               ret_prompt = CATEGORY_PROMPTS_initial[KEY_LOCAL]
        /\ \E k \in CategoryKeys : ret_prompt = CATEGORY_PROMPTS_initial[k]

C5_Witness ==
    /\ ret_prompt = CATEGORY_PROMPTS_initial[KEY_SPECIAL]
    /\ arg_category \notin CategoryKeys

\* C6: a reply that is not valid JSON ends with the fixed parse error, a
\* raising upstream call ends with the internal server error, and neither
\* is reported as the other.
C6_ParseErrorDistinct ==
    \A r \in Requests :
        pc[r] = "done" =>
            /\ (reply[r].kind = "content"
                    /\ reply[r].content \in {CONTENT_TRUNCATED, CONTENT_PLAIN_TEXT}) =>
                   response[r] = Error(500, ParseError, << >>)
            /\ reply[r].kind = "raise" =>
                   /\ response[r].status = 500
                   /\ response[r].error = InternalError
            /\ response[r].error = ParseError =>
                   /\ reply[r].kind = "content"
                   /\ reply[r].content \in {CONTENT_TRUNCATED, CONTENT_PLAIN_TEXT}

C6_Witness ==
    \E r \in Requests :
        /\ pc[r] = "done"
        /\ reply[r] = Reply("content", CONTENT_PLAIN_TEXT)
        /\ response[r].error = ParseError

\* C7: whenever the upstream text parses as JSON the response is HTTP 200
\* with the parsed value as body, whatever the value's shape.
C7_ParsedValueReturned ==
    \A r \in Requests :
        (pc[r] = "done" /\ reply[r].kind = "content" /\ json_loads(reply[r].content).ok) =>
            /\ response[r].status = 200
            /\ response[r].body = json_loads(reply[r].content).value

\* the request passed the readiness, required-field and location checks
PassedChecks(d) ==
    /\ Ready
    /\ d.kind = "dict"
    /\ truthy(FieldOf(d, "location"))
    /\ truthy(FieldOf(d, "category"))
    /\ d.location.t = "str"
    /\ is_valid_location(d.location.s)

\* C8: no request causes more than one upstream call; a request that
\* passes the readiness, required-field and location checks causes exactly
\* one, and a failed call or an unparseable reply ends the request with an
\* error and no second call.
C8_ExactlyOneCall ==
    \A r \in Requests :
        /\ calls[r] <= 1
        /\ (pc[r] # "idle" /\ PassedChecks(data[r])) => calls[r] = 1
        /\ (pc[r] = "done" /\ reply[r].kind = "raise") =>
               (response[r].error # "" /\ calls[r] = 1)
        /\ (pc[r] = "done" /\ reply[r].kind = "content" /\ ~json_loads(reply[r].content).ok) =>
               (response[r].error # "" /\ calls[r] = 1)

\* C9: the checks run in the order readiness, required fields, location,
\* upstream call, parse, and the first failing one decides the response.
C9_CheckOrder ==
    \A r \in Requests :
        pc[r] # "idle" =>
            \* readiness first, whatever the body
            /\ ~Ready => (pc[r] = "done" /\ response[r].error \in ConfigurationErrors)
            \* required fields before the location filter
            /\ (Ready /\ data[r].kind = "dict" /\ data_truthy(data[r])
                      /\ (~truthy(FieldOf(data[r], "location"))
                              \/ ~truthy(FieldOf(data[r], "category")))) =>
                   (pc[r] = "done" /\ response[r] = Error(400, RequiredError, << >>))
            \* the location filter before the upstream call
            /\ (pc[r] = "done" /\ response[r].error = LocationError) =>
                   (Ready /\ truthy(FieldOf(data[r], "location"))
                          /\ truthy(FieldOf(data[r], "category")) /\ calls[r] = 0)
            \* the upstream call only after all three checks
            /\ calls[r] > 0 => PassedChecks(data[r])
            \* parsing only after the call
            /\ (pc[r] = "done" /\ response[r].error = ParseError) => calls[r] > 0

C9_Witness ==
    /\ Ready
    /\ \E r \in Requests :
           /\ pc[r] = "done"
           /\ data[r].location = PyStr(HOGWARTS)
           /\ data[r].category = PyStr(<< >>)
           /\ response[r].error = RequiredError

\* requests with the same body and the same upstream outcome got the same
\* response, and every composed system prompt is one catalog block of the
\* startup catalog followed by one schema block
SameInputsSameResponse ==
    /\ \A r1, r2 \in Requests :
           (pc[r1] = "done" /\ pc[r2] = "done"
                /\ data[r1] = data[r2] /\ reply[r1] = reply[r2]) =>
               response[r1] = response[r2]
    /\ \A r \in Requests :
           calls[r] > 0 =>
               \E k \in CategoryKeys :
                   system_prompt[r] = CATEGORY_PROMPTS_initial[k] \o <<SCHEMA_BLOCK>>

GlobalsUntouched ==
    /\ openai_api_key' = openai_api_key
    /\ client_configured' = client_configured
    /\ CATEGORY_PROMPTS' = CATEGORY_PROMPTS

\* C10: no request changes the credential, the client_configured flag or the
\* catalog, and a request's response is the same whether it runs alone or
\* interleaved with others.
C10_NoSharedMutation ==
    /\ [][GlobalsUntouched]_vars
    /\ [](CATEGORY_PROMPTS = CATEGORY_PROMPTS_initial /\ SameInputsSameResponse)

C10_Witness ==
    \E r1, r2 \in Requests :
        /\ r1 # r2
        /\ pc[r1] = "calling"
        /\ pc[r2] = "done"
        /\ calls[r2] = 1
        /\ data[r1] = data[r2]

====
